---------------------------- MODULE Spec2Model ----------------------------
(***************************************************************************)
(* Model of the WebXR camera animation importer/exporter                   *)
(* (blender_addon/camera_animation_importer.py).                           *)
(*                                                                         *)
(* Numbers.  mathutils vectors and quaternions, object transforms and      *)
(* keyframe values are held in IEEE binary32 and every operation on them   *)
(* rounds to binary32 (round to nearest, ties to even).  A binary32 value  *)
(* is the pair <<m, e>> standing for m * 2^e, with m odd and |m| < 2^24,   *)
(* or <<0, 0>> for zero (the sign of zero is not kept).  The arithmetic    *)
(* below computes the correctly rounded result with integers that fit 32   *)
(* bits.  Python's own floats are binary64: the two places where the       *)
(* program rounds or truncates one, round(time, 4) and                     *)
(* int(time * frame_rate), are computed to the last bit as well.           *)
(*                                                                         *)
(* Units.  Timestamps are integers in 1e-4 s; frame rates are integers in  *)
(* quarters of a frame per second (the property is held in binary32, which *)
(* holds every such rate exactly); values written by the exporter are      *)
(* integers in 1e-6; coordinates of a clip are integers.                   *)
(***************************************************************************)
EXTENDS Integers, Sequences, FiniteSets, TLC

VARIABLES scene, cams, selected, imp, exp, ops, pf

vars == <<scene, cams, selected, imp, exp, ops, pf>>

----------------------------------------------------------------------------
(* Integers.                                                               *)

Abs(n) == IF n < 0 THEN -n ELSE n

MaxOf(a, b) == IF a >= b THEN a ELSE b

(* The number of binary digits of n >= 0.                                  *)
RECURSIVE BitLen(_)
BitLen(n) == IF n = 0 THEN 0 ELSE 1 + BitLen(n \div 2)

(* -1, 0 or 1 as rem is below, at or above half; more says that digits     *)
(* dropped earlier were not all zero.                                      *)
Cmp(rem, half, more) ==
  IF rem > half THEN 1
  ELSE IF rem < half THEN -1
  ELSE IF more THEN 1 ELSE 0

(* kept rounded to nearest, ties to even, given how the rest compares.     *)
RoundUp(kept, cmp) ==
  kept + (IF cmp > 0 \/ (cmp = 0 /\ kept % 2 = 1) THEN 1 ELSE 0)

----------------------------------------------------------------------------
(* binary32.                                                               *)

(* m * 2^e in canonical form.                                              *)
RECURSIVE Canon(_, _)
Canon(m, e) ==
  IF m = 0 THEN <<0, 0>>
  ELSE IF m % 2 = 0 THEN Canon(m \div 2, e + 1)
  ELSE <<m, e>>

(* float(n) for an integer |n| < 2^24.                                     *)
F32(n) == Canon(n, 0)

Zero == <<0, 0>>

One == <<1, 0>>

FNeg(a) == <<-a[1], a[2]>>

Signed(neg, a) == IF neg THEN FNeg(a) ELSE a

(* The magnitude (hi * 2^24 + lo) * 2^e, hi > 0 of d binary digits, plus   *)
(* a positive amount below its last digit when sticky, rounded to 24       *)
(* digits.                                                                 *)
RoundBits(neg, hi, lo, e, sticky, d) ==
  IF d <= 24
    THEN Signed(neg, Canon(RoundUp(hi * 2^(24 - d) + lo \div 2^d,
                                   Cmp(lo % 2^d, 2^(d - 1), sticky)),
                           e + d))
    ELSE Signed(neg, Canon(RoundUp(hi \div 2^(d - 24),
                                   Cmp(hi % 2^(d - 24), 2^(d - 25),
                                       lo > 0 \/ sticky)),
                           e + d))

RoundWide(neg, hi, lo, e, sticky) ==
  IF hi = 0 THEN Signed(neg, Canon(lo, e))
  ELSE RoundBits(neg, hi, lo, e, sticky, BitLen(hi))

(* a * b in float: the 48-digit product from 12-digit halves.              *)
MulCarry(neg, hi, lo_raw, e) ==
  RoundWide(neg, hi + lo_raw \div 2^24, lo_raw % 2^24, e, FALSE)

MulParts(neg, A, B, C, e) ==
  MulCarry(neg, A + B \div 2^12, (B % 2^12) * 2^12 + C, e)

MulMag(neg, a, b, e) ==
  MulParts(neg, (a \div 2^12) * (b \div 2^12),
           (a \div 2^12) * (b % 2^12) + (a % 2^12) * (b \div 2^12),
           (a % 2^12) * (b % 2^12), e)

FMul(a, b) ==
  IF a[1] = 0 \/ b[1] = 0 THEN Zero
  ELSE MulMag((a[1] < 0) # (b[1] < 0), Abs(a[1]), Abs(b[1]), a[2] + b[2])

(* m * 2^d as hi * 2^24 + lo.                                              *)
WideHi(m, d) == IF d >= 24 THEN m * 2^(d - 24) ELSE m \div 2^(24 - d)

WideLo(m, d) == IF d >= 24 THEN 0 ELSE (m % 2^(24 - d)) * 2^d

(* The sum of the magnitude ahi * 2^24 + alo (negative when na) and the    *)
(* magnitude mb (negative when nb), both in units of 2^e.                  *)
AddAligned(na, nb, ahi, alo, mb, e) ==
  IF na = nb
    THEN RoundWide(na, ahi + (alo + mb) \div 2^24, (alo + mb) % 2^24, e, FALSE)
  ELSE IF ahi > 0 /\ alo < mb
    THEN RoundWide(na, ahi - 1, alo - mb + 2^24, e, FALSE)
  ELSE IF alo >= mb
    THEN RoundWide(na, ahi, alo - mb, e, FALSE)
  ELSE RoundWide(nb, 0, mb - alo, e, FALSE)

(* a + b for non-zero a, b with a's exponent not below b's.  An operand    *)
(* more than 26 digits below the other one does not change it.             *)
AddOrdered(a, b, pa, pb) ==
  IF pa - pb > 26 THEN a
  ELSE IF pb - pa > 26 THEN b
  ELSE AddAligned(a[1] < 0, b[1] < 0, WideHi(Abs(a[1]), a[2] - b[2]),
                  WideLo(Abs(a[1]), a[2] - b[2]), Abs(b[1]), b[2])

(* a + b in float.                                                         *)
FAdd(a, b) ==
  IF a[1] = 0 THEN b
  ELSE IF b[1] = 0 THEN a
  ELSE IF a[2] >= b[2]
    THEN AddOrdered(a, b, a[2] + BitLen(Abs(a[1])), b[2] + BitLen(Abs(b[1])))
  ELSE AddOrdered(b, a, b[2] + BitLen(Abs(b[1])), a[2] + BitLen(Abs(a[1])))

(* a - b in float.                                                         *)
FSub(a, b) == FAdd(a, FNeg(b))

(* n doubling steps of a long division by m: <<quotient, remainder>>.      *)
RECURSIVE LongDiv(_, _, _, _)
LongDiv(q, r, m, n) ==
  IF n = 0 THEN <<q, r>>
  ELSE IF 2 * r >= m THEN LongDiv(2 * q + 1, 2 * r - m, m, n - 1)
  ELSE LongDiv(2 * q, 2 * r, m, n - 1)

(* A quotient or root of 26 or 27 digits with its remainder, rounded.      *)
RoundRest(neg, qr, e) ==
  RoundWide(neg, qr[1] \div 2^24, qr[1] % 2^24, e, qr[2] # 0)

DivMag(neg, ma, mb, e, n) ==
  RoundRest(neg, LongDiv(ma \div mb, ma % mb, mb, n), e - n)

(* a / b in float, b not zero.                                             *)
FDiv(a, b) ==
  IF a[1] = 0 THEN Zero
  ELSE DivMag((a[1] < 0) # (b[1] < 0), Abs(a[1]), Abs(b[1]), a[2] - b[2],
              27 + BitLen(Abs(b[1])) - BitLen(Abs(a[1])))

(* The square root digit by digit: the i leading digit pairs of m, then t  *)
(* pairs of zeros: <<root, remainder>>.                                    *)
RECURSIVE SqrtSteps(_, _, _, _, _)
RECURSIVE SqrtNext(_, _, _, _, _)
SqrtSteps(root, rem, m, i, t) ==
  IF i > 0 THEN SqrtNext(root, rem * 4 + ((m \div 4^(i - 1)) % 4), m, i - 1, t)
  ELSE IF t > 0 THEN SqrtNext(root, rem * 4, m, 0, t - 1)
  ELSE <<root, rem>>

SqrtNext(root, rem, m, i, t) ==
  IF rem >= 4 * root + 1
    THEN SqrtSteps(2 * root + 1, rem - (4 * root + 1), m, i, t)
    ELSE SqrtSteps(2 * root, rem, m, i, t)

SqrtMag(m, e, L) ==
  RoundRest(FALSE, SqrtSteps(0, 0, m, (L + 1) \div 2, (53 - L) \div 2),
            e \div 2 - (53 - L) \div 2)

(* sqrtf(a) for a >= 0.                                                    *)
FSqrt(a) ==
  IF a[1] = 0 THEN Zero
  ELSE IF a[2] % 2 = 0 THEN SqrtMag(a[1], a[2], BitLen(a[1]))
  ELSE SqrtMag(2 * a[1], a[2] - 1, BitLen(a[1]) + 1)

(* round(x, 6) in units of 1e-6 for the binary32 value x, |x| < 2000:      *)
(* x * 10^6 = m * 15625 * 2^(e + 6), rounded to nearest, ties to even.     *)
Round6Shift(hi, lo, s) ==
  IF s <= 24
    THEN RoundUp(hi * 2^(24 - s) + lo \div 2^s, Cmp(lo % 2^s, 2^(s - 1), FALSE))
  ELSE IF s > 40 THEN 0
  ELSE RoundUp(hi \div 2^(s - 24), Cmp(hi % 2^(s - 24), 2^(s - 25), lo > 0))

Round6Carry(hi, lo_raw, s) ==
  Round6Shift(hi + lo_raw \div 2^24, lo_raw % 2^24, s)

Round6Parts(a15, b15, s) ==
  Round6Carry(a15 \div 2^12, (a15 % 2^12) * 2^12 + b15, s)

Round6Mag(m, k) ==
  IF k >= 0 THEN m * 15625 * 2^k
  ELSE Round6Parts((m \div 2^12) * 15625, (m % 2^12) * 15625, -k)

Round6(a) ==
  IF a[1] = 0 THEN 0
  ELSE IF a[1] < 0 THEN -Round6Mag(-a[1], a[2] + 6)
  ELSE Round6Mag(a[1], a[2] + 6)


----------------------------------------------------------------------------
(* binary64: Python's float.  A quotient or product of two integers is off *)
(* its exact value by less than one part in 2^52, so rounding it to four   *)
(* decimals or truncating it differs from the exact answer only at a       *)
(* decimal tie or at a whole number; there the side on which the binary64  *)
(* value lies decides.                                                     *)

(* 2^e mod d.                                                              *)
RECURSIVE PowMod2(_, _)
PowMod2(e, d) == IF e <= 0 THEN 1 % d ELSE (2 * PowMod2(e - 1, d)) % d

(* The least j >= i with n * 2^j >= d.                                     *)
RECURSIVE ShiftsToReach(_, _, _)
ShiftsToReach(n, d, j) ==
  IF n * 2^j >= d THEN j ELSE ShiftsToReach(n, d, j + 1)

(* floor(log2(n / d)) for n, d > 0.                                        *)
Log2Floor(n, d) ==
  IF n >= d THEN BitLen(n \div d) - 1 ELSE -ShiftsToReach(n, d, 1)

(* What n / d leaves below the 53rd binary digit, in units of 1/d of that  *)
(* digit: the binary64 quotient is exact at 0, low below d/2, high above.  *)
Binary64Rest(n, d) == ((n % d) * PowMod2(52 - Log2Floor(n, d), d)) % d

(* A decimal tie at q + 1/2: the binary64 quotient is above it, below it,  *)
(* or on it (then the even neighbour is taken).                            *)
Round4Tie(q, rest2, d) ==
  IF rest2 > d THEN q + 1
  ELSE IF rest2 > 0 THEN q
  ELSE q + (q % 2)

Round4Mag(n, fps) ==
  IF 2 * ((n * 10000) % fps) > fps THEN (n * 10000) \div fps + 1
  ELSE IF 2 * ((n * 10000) % fps) < fps THEN (n * 10000) \div fps
  ELSE Round4Tie((n * 10000) \div fps, 2 * Binary64Rest(n, fps), fps)

(* round(n / fps, 4) in 1e-4, n and fps integers, fps > 0.                 *)
Round4Div(n, fps) ==
  IF n = 0 THEN 0
  ELSE IF n < 0 THEN -Round4Mag(-n, fps)
  ELSE Round4Mag(n, fps)

(* The exact product is the whole number N and the binary64 time t is low  *)
(* by rest/10000 of its last digit, of weight 2^(kt - 52); the product is  *)
(* rounded to N - 1's last digit, of weight 2^(k - 52), and falls short of *)
(* N when the shortfall exceeds half of that.                              *)
IntTimesBelow(N, rest, rate, k, kt) ==
  IF k >= kt
    THEN IF rest * rate > 20000 * 2^(k - kt) THEN N - 1 ELSE N
    ELSE IF rest * rate * 2^(kt - k) > 20000 THEN N - 1 ELSE N

IntTimesWhole(N, rest, rate, kt) ==
  IF rest = 0 \/ rest > 5000 THEN N
  ELSE IntTimesBelow(N, rest, rate, BitLen(N - 1) - 1, kt)

IntTimesMag(T, rate) ==
  IF (T * rate) % 40000 # 0 THEN (T * rate) \div 40000
  ELSE IntTimesWhole((T * rate) \div 40000, Binary64Rest(T, 10000), rate,
                     Log2Floor(T, 10000))

(* int(t * rate) for the binary64 t nearest to T / 10^4 and the rate       *)
(* rate / 4; int() truncates towards zero.                                 *)
IntTimes(T, rate) ==
  IF T = 0 THEN 0
  ELSE IF T < 0 THEN -IntTimesMag(-T, rate)
  ELSE IntTimesMag(T, rate)

----------------------------------------------------------------------------
(* mathutils.Vector and mathutils.Quaternion: arrays of float.  An         *)
(* expression is evaluated left to right, each product and sum rounded     *)
(* (no fused multiply-add).                                                *)

Vector(x, y, z) == [x |-> x, y |-> y, z |-> z]

Quaternion(w, x, y, z) == [w |-> w, x |-> x, y |-> y, z |-> z]

VAdd(a, b) == Vector(FAdd(a.x, b.x), FAdd(a.y, b.y), FAdd(a.z, b.z))

VSub(a, b) == Vector(FSub(a.x, b.x), FSub(a.y, b.y), FSub(a.z, b.z))

(* Vector *= s: every component times the float s.                         *)
VScale(s, a) == Vector(FMul(a.x, s), FMul(a.y, s), FMul(a.z, s))

(* Vector /= s: every component times the float 1 / s.                     *)
VDiv(a, s) == VScale(FDiv(One, s), a)

(* Quaternion @ Quaternion: the Hamilton product, term by term.            *)
QMul(a, b) ==
  Quaternion(
    FSub(FSub(FSub(FMul(a.w, b.w), FMul(a.x, b.x)), FMul(a.y, b.y)), FMul(a.z, b.z)),
    FSub(FAdd(FAdd(FMul(a.w, b.x), FMul(a.x, b.w)), FMul(a.y, b.z)), FMul(a.z, b.y)),
    FSub(FAdd(FAdd(FMul(a.w, b.y), FMul(a.y, b.w)), FMul(a.z, b.x)), FMul(a.x, b.z)),
    FSub(FAdd(FAdd(FMul(a.w, b.z), FMul(a.z, b.w)), FMul(a.x, b.y)), FMul(a.y, b.x)))

QConj(q) == Quaternion(q.w, FNeg(q.x), FNeg(q.y), FNeg(q.z))

Dot(a, b) ==
  FAdd(FAdd(FAdd(FMul(a.w, b.w), FMul(a.x, b.x)), FMul(a.y, b.y)), FMul(a.z, b.z))

QScale(q, s) == Quaternion(FMul(q.w, s), FMul(q.x, s), FMul(q.y, s), FMul(q.z, s))

QInvertBy(q, f) == IF f = Zero THEN q ELSE QScale(QConj(q), FDiv(One, f))

(* Quaternion.inverted(): the conjugate times 1 / (q . q); a zero          *)
(* quaternion is returned as it is.                                        *)
QInverted(q) == QInvertBy(q, Dot(q, q))

QNormalizeBy(q, len) ==
  IF len = Zero THEN Quaternion(Zero, One, Zero, Zero)
  ELSE QScale(q, FDiv(One, len))

(* The host's normalisation of a quaternion in place.                      *)
QNormalized(q) == QNormalizeBy(q, FSqrt(Dot(q, q)))

(* Quaternion @ Vector: q * (0, v), then the product with the conjugate.   *)
QRotateBack(q, t0, r) ==
  Vector(
    FAdd(FSub(FAdd(FMul(t0, FNeg(q.x)), FMul(r.x, q.w)), FMul(r.y, q.z)),
         FMul(r.z, q.y)),
    FAdd(FSub(FAdd(FMul(t0, FNeg(q.y)), FMul(r.y, q.w)), FMul(r.z, q.x)),
         FMul(r.x, q.z)),
    FAdd(FSub(FAdd(FMul(t0, FNeg(q.z)), FMul(r.z, q.w)), FMul(r.x, q.y)),
         FMul(r.y, q.x)))

QRotate(q, v) ==
  QRotateBack(q,
    FSub(FSub(FMul(FNeg(q.x), v.x), FMul(q.y, v.y)), FMul(q.z, v.z)),
    Vector(FSub(FAdd(FMul(q.w, v.x), FMul(q.y, v.z)), FMul(q.z, v.y)),
           FSub(FAdd(FMul(q.w, v.y), FMul(q.z, v.x)), FMul(q.x, v.z)),
           FSub(FAdd(FMul(q.w, v.z), FMul(q.x, v.y)), FMul(q.y, v.x))))

----------------------------------------------------------------------------
(* The pose transform of the two pipelines.                                *)

(* float(0.7071068) = 2965821 / 2^22.                                      *)
C32 == <<2965821, -22>>

basis_rotation == Quaternion(C32, C32, Zero, Zero)

basis_rotation_inv == Quaternion(C32, FNeg(C32), Zero, Zero)

(* WebXR Y-up to Blender Z-up.                                             *)
ImportConvertPosition(p) == Vector(p.x, FNeg(p.z), p.y)

ImportConvertRotation(q) == QMul(basis_rotation, q)

(* Blender Z-up to WebXR Y-up.                                             *)
(* The export position conversion with the sign of the new Z axis lost.    *)
ExportConvertPositionNoNegate(p) == Vector(p.x, p.z, p.y)

ExportConvertPosition(p) == Vector(p.x, p.z, FNeg(p.y))

(* The export rotation conversion applying the import's basis rotation.    *)
ExportConvertRotationForward(q) == QMul(basis_rotation, q)

ExportConvertRotation(q) == QMul(basis_rotation_inv, q)

(* JSON [x, y, z, w] to Quaternion((w, x, y, z)).                          *)
ParseQuaternion(q) == Quaternion(F32(q[4]), F32(q[1]), F32(q[2]), F32(q[3]))

ParseVector(p) == Vector(F32(p[1]), F32(p[2]), F32(p[3]))

ZeroVector == Vector(Zero, Zero, Zero)

IdentityQuaternion == Quaternion(One, Zero, Zero, Zero)

(* int(time * frame_rate) + 1, time in 1e-4 s, frame_rate in quarters.     *)
FrameNumber(t, frame_rate) == IntTimes(t, frame_rate) + 1

(* total_frames = int(duration * frame_rate); frame_end = max(.., 1).      *)
FrameEnd(duration, frame_rate) == MaxOf(IntTimes(duration, frame_rate), 1)

(* scene.render.fps = int(frame_rate).                                     *)
SceneFps(frame_rate) == frame_rate \div 4

(* first_frame['p'] when the key is present, else the origin.              *)
FirstFramePosition(first_frame) ==
  IF first_frame.pk = "absent" THEN ZeroVector ELSE ParseVector(first_frame.p)

(* ImportPose with the position delta rotated by initial_rot whatever the  *)
(* coordinate system.                                                      *)
ImportPoseAlwaysRotate(cfg, basis, frame_data) ==
  LET q == ParseQuaternion(frame_data.q)
      p == IF frame_data.pk = "value" THEN ParseVector(frame_data.p) ELSE ZeroVector
      blender == cfg.coordinate_system = "BLENDER"
      q_converted == IF blender THEN QMul(basis_rotation, q) ELSE q
      p_converted == VScale(F32(cfg.scale_factor),
                            IF blender THEN Vector(p.x, FNeg(p.z), p.y) ELSE p)
      q_delta == QMul(QInverted(basis.q0), q_converted)
      p_delta == VSub(p_converted, basis.p0)
  IN  IF cfg.apply_deltas
        THEN [q |-> QMul(basis.initial_rot, q_delta),
              p |-> VAdd(basis.initial_pos, QRotate(basis.initial_rot, p_delta))]
        ELSE [q |-> q_converted, p |-> p_converted]

(* One iteration of the import loop up to q_final, p_final.  cfg is the    *)
(* operator's properties; basis holds initial_pos, initial_rot, q0, p0.    *)
ImportPose(cfg, basis, frame_data) ==
  LET q == ParseQuaternion(frame_data.q)
      p == IF frame_data.pk = "value" THEN ParseVector(frame_data.p) ELSE ZeroVector
      blender == cfg.coordinate_system = "BLENDER"
      q_converted == IF blender THEN ImportConvertRotation(q) ELSE q
      p_converted == VScale(F32(cfg.scale_factor),
                            IF blender THEN ImportConvertPosition(p) ELSE p)
      q_delta == QMul(QInverted(basis.q0), q_converted)
      p_delta == VSub(p_converted, basis.p0)
      p_delta_rotated == IF blender THEN QRotate(basis.initial_rot, p_delta)
                                    ELSE p_delta
  IN  IF cfg.apply_deltas
        THEN [q |-> QMul(basis.initial_rot, q_delta),
              p |-> VAdd(basis.initial_pos, p_delta_rotated)]
        ELSE [q |-> q_converted, p |-> p_converted]

(* The rounded record of a frame: t = round(time, 4), q and p to six       *)
(* decimals.                                                               *)
ExportRecord(cfg, t, q_converted, p_converted) ==
  [t  |-> t,
   q  |-> <<Round6(q_converted.x), Round6(q_converted.y),
            Round6(q_converted.z), Round6(q_converted.w)>>,
   pk |-> IF cfg.export_position THEN "value" ELSE "absent",
   p  |-> IF cfg.export_position
            THEN <<Round6(p_converted.x), Round6(p_converted.y),
                   Round6(p_converted.z)>>
            ELSE << >>]

(* One iteration of the export loop from the sampled pose to frame_data.   *)
ExportFrame(cfg, frame_num, frame_start, fps, q, p) ==
  IF cfg.coordinate_system = "WEBXR"
    THEN ExportRecord(cfg, Round4Div(frame_num - frame_start, fps),
                      ExportConvertRotation(q),
                      VDiv(ExportConvertPosition(p), F32(cfg.scale_factor)))
    ELSE ExportRecord(cfg, Round4Div(frame_num - frame_start, fps), q,
                      VDiv(p, F32(cfg.scale_factor)))

(* range(start, stop, step) for step >= 1.                                 *)
RECURSIVE Range(_, _, _)
Range(start, stop, step) ==
  IF start >= stop THEN << >> ELSE <<start>> \o Range(start + step, stop, step)

(* sorted(set).                                                            *)
RECURSIVE Sorted(_)
Sorted(S) ==
  IF S = {} THEN << >>
  ELSE LET m == CHOOSE x \in S : \A y \in S : x <= y
       IN  <<m>> \o Sorted(S \ {m})

----------------------------------------------------------------------------
(* The host: keyframe channels, cameras, the scene.                        *)
(*                                                                         *)
(* A channel maps a frame index to a keyframe; the value of a keyframe is  *)
(* a Vector or a Quaternion, each component an animation curve of its own. *)
(* Reading an animated property at a frame that holds a keyframe gives the *)
(* keyframe's value; outside the keyed interval the nearest keyframe's     *)
(* value; strictly between two keyframes the curve is interpolated in      *)
(* float as prev + fac * (next - prev), fac = (f - f_prev) / (f_next -     *)
(* f_prev).  That is the host's LINEAR interpolation; for BEZIER keyframes *)
(* it is the value of the curve where the hosts below sample it, half way  *)
(* between two keyframes with flat handles.  A CONSTANT keyframe holds its *)
(* value up to the next one.                                               *)

NoKeys == [f \in {} |-> 0]

NewKey(v) == [co |-> v, interpolation |-> "PREF",
              handle_left_type |-> "PREF", handle_right_type |-> "PREF"]

InsertKey(keys, f, v) ==
  [g \in (DOMAIN keys) \cup {f} |-> IF g = f THEN NewKey(v) ELSE keys[g]]

(* prev + fac * (next - prev) on one curve.                                *)
Lerp(a, b, fac) == FAdd(a, FMul(fac, FSub(b, a)))

Interpolate(a, b, fac) ==
  IF "w" \in DOMAIN a
    THEN Quaternion(Lerp(a.w, b.w, fac), Lerp(a.x, b.x, fac),
                    Lerp(a.y, b.y, fac), Lerp(a.z, b.z, fac))
    ELSE Vector(Lerp(a.x, b.x, fac), Lerp(a.y, b.y, fac), Lerp(a.z, b.z, fac))

(* The curve at f between the keyframes at lo and hi.                      *)
Between(keys, f, lo, hi) ==
  IF keys[lo].interpolation = "CONSTANT" THEN keys[lo].co
  ELSE Interpolate(keys[lo].co, keys[hi].co, FDiv(F32(f - lo), F32(hi - lo)))

Evaluate(keys, f, current) ==
  LET D == DOMAIN keys
  IN  IF D = {} THEN current
      ELSE IF f \in D THEN keys[f].co
      ELSE LET below == {g \in D : g < f}
               above == {g \in D : g > f}
           IN  IF below = {} THEN keys[CHOOSE g \in above : \A h \in above : g <= h].co
               ELSE IF above = {}
                 THEN keys[CHOOSE g \in below : \A h \in below : h <= g].co
               ELSE Between(keys, f, CHOOSE g \in below : \A h \in below : h <= g,
                            CHOOSE g \in above : \A h \in above : g <= h)

NoProps == [has |-> FALSE, duration |-> 0, frames |-> 0]

(* bpy.data.objects.new(...) with a new camera datablock.                  *)
NewCamera ==
  [location |-> ZeroVector, rotation_mode |-> "XYZ",
   rotation_quaternion |-> IdentityQuaternion, rotation_euler |-> <<0, 0, 0>>,
   anim |-> "none", locKeys |-> NoKeys, rotKeys |-> NoKeys, props |-> NoProps]

(* Euler angles are kept as the number of half turns (0 or 1) about each   *)
(* axis: an angle is 0 or float(pi).  The host computes the quaternion in  *)
(* binary64 from the cosines and sines of the half angles and rounds it to *)
(* float: cos(float(pi) / 2) is CosQuarter, not zero, and the sine is 1.   *)
CosQuarter == <<-6151831, -47>>

(* float(CosQuarter^2) and float(CosQuarter^2 - CosQuarter).               *)
CosQuarterSquared == <<4511479, -71>>

CosQuarterOver == <<12303663, -48>>

(* Euler.to_quaternion(), and the host's conversion when the rotation mode *)
(* goes from XYZ to QUATERNION.                                            *)
EulerToQuaternion(e) ==
  CASE e = <<0, 0, 0>> -> IdentityQuaternion
    [] e = <<1, 0, 0>> -> Quaternion(CosQuarter, One, Zero, Zero)
    [] e = <<0, 1, 0>> -> Quaternion(CosQuarter, Zero, One, Zero)
    [] e = <<0, 0, 1>> -> Quaternion(CosQuarter, Zero, Zero, One)
    [] e = <<1, 1, 0>> -> Quaternion(CosQuarterSquared, CosQuarter, CosQuarter,
                                     FNeg(One))
    [] e = <<1, 0, 1>> -> Quaternion(CosQuarterSquared, CosQuarter, One, CosQuarter)
    [] e = <<0, 1, 1>> -> Quaternion(CosQuarterSquared, FNeg(One), CosQuarter,
                                     CosQuarter)
    [] e = <<1, 1, 1>> -> Quaternion(One, CosQuarterOver, CosQuarter, CosQuarterOver)

(* The host's conversion when the rotation mode goes from QUATERNION to    *)
(* XYZ, for the unit quaternion q: no turn for the identity; the angles of *)
(* any other q are not computed and stand as <<q>>.                        *)
QuaternionToEuler(q) == IF q = IdentityQuaternion THEN <<0, 0, 0>> ELSE <<q>>

(* camera.rotation_mode = mode: the host converts the stored rotation to   *)
(* the new representation; the quaternion is normalised on the way to      *)
(* Euler angles.                                                           *)
ChangeRotationMode(camera, mode) ==
  IF camera.rotation_mode = mode THEN camera
  ELSE IF mode = "QUATERNION"
    THEN [camera EXCEPT !.rotation_mode = mode,
                        !.rotation_quaternion = EulerToQuaternion(camera.rotation_euler)]
  ELSE [camera EXCEPT !.rotation_mode = mode,
                      !.rotation_quaternion = QNormalized(@),
                      !.rotation_euler =
                         QuaternionToEuler(QNormalized(camera.rotation_quaternion))]

(* scene.frame_set(f): every animated object takes its evaluated pose.     *)
FrameSetCams(cs, f) ==
  [i \in 1..Len(cs) |->
     IF cs[i].anim = "action"
       THEN [cs[i] EXCEPT
               !.location = Evaluate(cs[i].locKeys, f, cs[i].location),
               !.rotation_quaternion =
                  Evaluate(cs[i].rotKeys, f, cs[i].rotation_quaternion)]
       ELSE cs[i]]

----------------------------------------------------------------------------
(* WebXRCameraAnimationImporter.                                           *)

(* _get_or_create_camera without the creation of a camera when the scene   *)
(* has none.                                                               *)
GetOrCreateCameraNoFallback(cfg, scene_camera) ==
  IF cfg.use_existing_camera /\ scene_camera # 0 THEN "existing"
  ELSE IF cfg.create_camera THEN "create"
  ELSE "none"

(* _get_or_create_camera: "existing", "create" or "none".                  *)
GetOrCreateCamera(cfg, scene_camera) ==
  IF cfg.use_existing_camera /\ scene_camera # 0 THEN "existing"
  ELSE IF cfg.create_camera \/ scene_camera = 0 THEN "create"
  ELSE "none"

(* initial_pos, initial_rot, q0, p0 of a run.                              *)
DeltaBasis(cfg, camera, first_frame) ==
  [initial_pos |-> IF cfg.apply_deltas THEN camera.location ELSE ZeroVector,
   initial_rot |-> IF ~cfg.apply_deltas THEN IdentityQuaternion
                   ELSE IF camera.rotation_mode = "QUATERNION"
                          THEN camera.rotation_quaternion
                          ELSE EulerToQuaternion(camera.rotation_euler),
   q0 |-> ParseQuaternion(first_frame.q),
   p0 |-> FirstFramePosition(first_frame)]

(* The body of "for frame_data in frames" for one frame, from the call of  *)
(* scene.frame_set on: pose is q_final, p_final.                           *)
ImportFrame(cs, target, frame_number, pose) ==
  [FrameSetCams(cs, frame_number) EXCEPT ![target] =
     [@ EXCEPT !.location = pose.p,
               !.rotation_quaternion = pose.q,
               !.locKeys = InsertKey(@, frame_number, pose.p),
               !.rotKeys = InsertKey(@, frame_number, pose.q)]]

(* The loop from frame i on.  The result says whether a frame raised       *)
(* (a frame without 'q'), the cameras and the current frame at that point. *)
RECURSIVE ImportLoop(_, _, _, _, _, _, _)
ImportLoop(cs, current, target, cfg, basis, frames, i) ==
  IF i > Len(frames) THEN [raised |-> FALSE, cams |-> cs, frame_current |-> current]
  ELSE IF Len(frames[i].q) = 0
    THEN [raised |-> TRUE, cams |-> cs, frame_current |-> current]
  ELSE ImportLoop(ImportFrame(cs, target, FrameNumber(frames[i].t, cfg.frame_rate),
                              ImportPose(cfg, basis, frames[i])),
                  FrameNumber(frames[i].t, cfg.frame_rate),
                  target, cfg, basis, frames, i + 1)

(* FINALIZE_INTERPOLATION on one channel.                                  *)
SetBezier(keys) ==
  [f \in DOMAIN keys |->
     [keys[f] EXCEPT !.interpolation = "BEZIER",
                     !.handle_left_type = "AUTO_CLAMPED",
                     !.handle_right_type = "AUTO_CLAMPED"]]

(* The scene after "Set scene frame range".                                *)
ImportSceneRange(sc, cfg, frames) ==
  [sc EXCEPT !.frame_start = 1,
             !.frame_end = FrameEnd(frames[Len(frames)].t, cfg.frame_rate),
             !.fps = SceneFps(cfg.frame_rate)]

(* The target in quaternion mode, its animation cleared, a new action.     *)
ImportPrepareTarget(cs, target) ==
  [cs EXCEPT ![target] =
     [ChangeRotationMode(@, "QUATERNION")
        EXCEPT !.anim = "action", !.locKeys = NoKeys, !.rotKeys = NoKeys]]

(* After the loop: interpolation, scene.frame_set(1), custom properties.   *)
ImportFinalize(cs, target, frames) ==
  [FrameSetCams([cs EXCEPT ![target] =
                   [@ EXCEPT !.locKeys = SetBezier(@), !.rotKeys = SetBezier(@)]],
                1)
     EXCEPT ![target] =
       [@ EXCEPT !.props = [has |-> TRUE, duration |-> frames[Len(frames)].t,
                            frames |-> Len(frames)]]]

ImportAfterLoop(sc1, loop, target, frames) ==
  IF loop.raised
    THEN [raised |-> TRUE,
          scene |-> [sc1 EXCEPT !.frame_current = loop.frame_current],
          cams |-> loop.cams]
    ELSE [raised |-> FALSE, scene |-> [sc1 EXCEPT !.frame_current = 1],
          cams |-> ImportFinalize(loop.cams, target, frames)]

(* _import_animation(camera, frames, metadata) on target, after the target *)
(* was resolved: sc and cs are the scene and the cameras at that point.    *)
ImportAnimation(sc, cs, target, cfg, frames) ==
  IF Len(frames[1].q) = 0 \/ frames[1].pk = "null"
    THEN [raised |-> TRUE, scene |-> ImportSceneRange(sc, cfg, frames),
          cams |-> ImportPrepareTarget(cs, target)]
    ELSE ImportAfterLoop(ImportSceneRange(sc, cfg, frames),
                         ImportLoop(ImportPrepareTarget(cs, target), sc.frame_current,
                                    target, cfg, DeltaBasis(cfg, cs[target], frames[1]),
                                    frames, 1),
                         target, frames)

ImportCancelled(stage, sc, cs, sel) ==
  [outcome |-> "CANCELLED", stage |-> stage, target |-> 0,
   scene |-> sc, cams |-> cs, selected |-> sel]

ImportOutcome(run, target, sel) ==
  IF run.raised
    THEN [outcome |-> "CANCELLED", stage |-> "FRAME_ERROR", target |-> target,
          scene |-> run.scene, cams |-> run.cams, selected |-> sel]
    ELSE [outcome |-> "FINISHED", stage |-> "DONE", target |-> target,
          scene |-> [run.scene EXCEPT !.active = target],
          cams |-> run.cams, selected |-> sel \cup {target}]

(* execute() resolving the target camera before the frames are validated.  *)
ImportRunPrepareFirst(sc, cs, sel, cfg, data) ==
  IF data.kind = "malformed" THEN ImportCancelled("MALFORMED_JSON", sc, cs, sel)
  ELSE IF GetOrCreateCamera(cfg, sc.camera) = "none"
    THEN ImportCancelled("TARGET_UNAVAILABLE", sc, cs, sel)
  ELSE IF GetOrCreateCamera(cfg, sc.camera) = "create"
    THEN IF data.kind # "frames"
           THEN ImportCancelled("MISSING_FRAMES", [sc EXCEPT !.camera = Len(cs) + 1],
                                Append(cs, NewCamera), sel)
         ELSE IF Len(data.frames) = 0
           THEN ImportCancelled("EMPTY_FRAMES", [sc EXCEPT !.camera = Len(cs) + 1],
                                Append(cs, NewCamera), sel)
         ELSE ImportOutcome(ImportAnimation([sc EXCEPT !.camera = Len(cs) + 1],
                                            Append(cs, NewCamera), Len(cs) + 1,
                                            cfg, data.frames),
                            Len(cs) + 1, sel)
  ELSE IF data.kind # "frames" THEN ImportCancelled("MISSING_FRAMES", sc, cs, sel)
  ELSE IF Len(data.frames) = 0 THEN ImportCancelled("EMPTY_FRAMES", sc, cs, sel)
  ELSE ImportOutcome(ImportAnimation(sc, cs, sc.camera, cfg, data.frames),
                     sc.camera, sel)

(* execute(): the whole import, from the host state (sc, cs, sel).         *)
ImportRun(sc, cs, sel, cfg, data) ==
  IF data.kind = "malformed" THEN ImportCancelled("MALFORMED_JSON", sc, cs, sel)
  ELSE IF data.kind # "frames" THEN ImportCancelled("MISSING_FRAMES", sc, cs, sel)
  ELSE IF Len(data.frames) = 0 THEN ImportCancelled("EMPTY_FRAMES", sc, cs, sel)
  ELSE IF GetOrCreateCamera(cfg, sc.camera) = "none"
    THEN ImportCancelled("TARGET_UNAVAILABLE", sc, cs, sel)
  ELSE IF GetOrCreateCamera(cfg, sc.camera) = "create"
    THEN ImportOutcome(ImportAnimation([sc EXCEPT !.camera = Len(cs) + 1],
                                       Append(cs, NewCamera), Len(cs) + 1,
                                       cfg, data.frames),
                       Len(cs) + 1, sel)
  ELSE ImportOutcome(ImportAnimation(sc, cs, sc.camera, cfg, data.frames),
                     sc.camera, sel)

----------------------------------------------------------------------------
(* WebXRCameraAnimationExporter.                                           *)

(* _get_camera: the camera's index, 0 for None.                            *)
GetCamera(cfg, sc, sel) ==
  IF cfg.export_active_camera THEN sc.camera
  ELSE IF sel # {} THEN CHOOSE i \in sel : \A j \in sel : i <= j
  ELSE 0

(* _get_frames_to_sample with the end of the scene range excluded.         *)
GetFramesToSampleExclusive(cfg, camera, sc) ==
  IF cfg.sample_mode = "KEYFRAMES"
    THEN Sorted(IF camera.anim = "action"
                  THEN (DOMAIN camera.locKeys) \cup (DOMAIN camera.rotKeys)
                  ELSE {})
  ELSE IF cfg.sample_mode = "CUSTOM_RATE"
    THEN Range(sc.frame_start, sc.frame_end, cfg.custom_sample_rate)
  ELSE Range(sc.frame_start, sc.frame_end + 1, 1)

(* _get_frames_to_sample(camera, scene).                                   *)
GetFramesToSample(cfg, camera, sc) ==
  IF cfg.sample_mode = "KEYFRAMES"
    THEN Sorted(IF camera.anim = "action"
                  THEN (DOMAIN camera.locKeys) \cup (DOMAIN camera.rotKeys)
                  ELSE {})
  ELSE IF cfg.sample_mode = "CUSTOM_RATE"
    THEN Range(sc.frame_start, sc.frame_end + 1, cfg.custom_sample_rate)
  ELSE Range(sc.frame_start, sc.frame_end + 1, 1)

(* One iteration of the sampling loop on the cameras as scene.frame_set   *)
(* left them.                                                              *)
ExportSample(cs1, target, cfg, sc, frame_num) ==
  ExportFrame(cfg, frame_num, sc.frame_start, sc.fps,
              cs1[target].rotation_quaternion, cs1[target].location)

(* The sampling loop from index i on.  raise_at is the iteration in which  *)
(* the host raises (0: none), after the playback position was moved.       *)
RECURSIVE ExportLoop(_, _, _, _, _, _, _, _, _)
ExportLoop(cs, current, target, cfg, sc, frames, i, raise_at, out) ==
  IF i > Len(frames)
    THEN [raised |-> FALSE, cams |-> cs, frame_current |-> current, out |-> out]
  ELSE IF i = raise_at
    THEN [raised |-> TRUE, cams |-> FrameSetCams(cs, frames[i]),
          frame_current |-> frames[i], out |-> out]
  ELSE ExportLoop(FrameSetCams(cs, frames[i]), frames[i], target, cfg, sc,
                  frames, i + 1, raise_at,
                  Append(out, ExportSample(FrameSetCams(cs, frames[i]),
                                           target, cfg, sc, frames[i])))

NoOutput == [frames |-> << >>, fps |-> 0, frameRange |-> <<0, 0>>,
             originalSource |-> FALSE]

ExportCancelled(stage, target, sc, cs, sampled) ==
  [outcome |-> "CANCELLED", stage |-> stage, target |-> target,
   scene |-> sc, cams |-> cs, sampled |-> sampled, out |-> NoOutput]

(* "Restore original state": scene.frame_set(original_frame) and the      *)
(* rotation mode.                                                          *)
ExportRestore(cs, target, original_frame, original_rotation_mode) ==
  [FrameSetCams(cs, original_frame)
     EXCEPT ![target] = ChangeRotationMode(@, original_rotation_mode)]

(* What follows the sampling loop.  fault says where the host raises:      *)
(* "none", "sample" (in iteration fault.index), "build" or "write".        *)
ExportAfterLoop(sc, cs, target, fault, frames_to_sample, loop) ==
  IF loop.raised
    THEN ExportCancelled("SAMPLE_ERROR", target,
                         [sc EXCEPT !.frame_current = loop.frame_current],
                         loop.cams, frames_to_sample)
  ELSE IF fault.at = "build"
    THEN ExportCancelled("BUILD_ERROR", target, sc,
                         ExportRestore(loop.cams, target, sc.frame_current,
                                       cs[target].rotation_mode),
                         frames_to_sample)
  ELSE IF fault.at = "write"
    THEN ExportCancelled("WRITE_ERROR", target, sc,
                         ExportRestore(loop.cams, target, sc.frame_current,
                                       cs[target].rotation_mode),
                         frames_to_sample)
  ELSE [outcome |-> "FINISHED", stage |-> "DONE", target |-> target,
        scene |-> sc,
        cams |-> ExportRestore(loop.cams, target, sc.frame_current,
                               cs[target].rotation_mode),
        sampled |-> frames_to_sample,
        out |-> [frames |-> loop.out, fps |-> sc.fps,
                 frameRange |-> <<sc.frame_start, sc.frame_end>>,
                 originalSource |-> cs[target].props.has]]

(* _export_animation on the camera target, then the file write.            *)
ExportAnimation(sc, cs, target, cfg, fault, frames_to_sample) ==
  ExportAfterLoop(sc, cs, target, fault, frames_to_sample,
                  ExportLoop([cs EXCEPT ![target] = ChangeRotationMode(@, "QUATERNION")],
                             sc.frame_current, target, cfg, sc, frames_to_sample, 1,
                             IF fault.at = "sample" THEN fault.index ELSE 0, << >>))

(* execute(): the whole export, from the host state (sc, cs, sel).         *)
ExportRun(sc, cs, sel, cfg, fault) ==
  IF GetCamera(cfg, sc, sel) = 0
    THEN ExportCancelled("SOURCE_UNAVAILABLE", 0, sc, cs, << >>)
  ELSE IF cs[GetCamera(cfg, sc, sel)].anim # "action"
    THEN ExportCancelled("NO_ANIMATION", GetCamera(cfg, sc, sel), sc, cs, << >>)
  ELSE ExportAnimation(sc, cs, GetCamera(cfg, sc, sel), cfg, fault,
                       GetFramesToSample(cfg, cs[GetCamera(cfg, sc, sel)], sc))

----------------------------------------------------------------------------
(* Inputs and initial host states.                                         *)

MaxLen == 2

MaxFaultAt == 2

V(x, y, z) == Vector(F32(x), F32(y), F32(z))

(* Frames of the wire format: t in 1e-4 s, q as [x, y, z, w] (empty: the   *)
(* key is missing), p as [x, y, z] with pk saying whether 'p' is a value,  *)
(* absent or null.                                                         *)
Frame(t, q, pk, p) == [t |-> t, q |-> q, pk |-> pk, p |-> p]

ClipFrames ==
  { Frame(0,     <<0, 0, 0, 1>>, "value",  <<5, 0, 0>>),
    Frame(10000, <<0, 0, 0, 1>>, "value",  <<6, 0, 0>>),
    Frame(5000,  <<1, 0, 0, 1>>, "value",  <<0, 1, 0>>),
    Frame(41000, <<0, 2, 0, 0>>, "value",  <<0, 1, 3>>),
    Frame(30000, <<0, 1, 0, 3>>, "value",  <<24, 0, 0>>),
    Frame(20000, <<0, 1, 0, 0>>, "absent", << >>),
    Frame(10000, <<0, 0, 1, 0>>, "null",   << >>),
    Frame(5000,  << >>,          "value",  <<1, 0, 0>>) }

Clips == UNION {[1..n -> ClipFrames] : n \in 0..MaxLen}

ImportData ==
  {[kind |-> k, frames |-> << >>] : k \in {"malformed", "nokey", "notlist"}}
    \cup {[kind |-> "frames", frames |-> c] : c \in Clips}

(* frame_rate in quarters of a frame per second: 1, 1.5 and 30.            *)
ImportConfigs ==
  [create_camera : BOOLEAN, use_existing_camera : BOOLEAN,
   scale_factor : {1, 3, 7}, coordinate_system : {"BLENDER", "WEBXR"},
   apply_deltas : BOOLEAN, frame_rate : {4, 6, 120}]

ExportConfigs ==
  [export_active_camera : BOOLEAN, scale_factor : {1, 3, 7},
   coordinate_system : {"WEBXR", "BLENDER"},
   sample_mode : {"KEYFRAMES", "ALL_FRAMES", "CUSTOM_RATE"},
   custom_sample_rate : {1, 3}, export_position : BOOLEAN]

Faults ==
  {[at |-> a, index |-> 0] : a \in {"none", "build", "write"}}
    \cup {[at |-> "sample", index |-> i] : i \in 1..MaxFaultAt}

UserKey(v) == [co |-> v, interpolation |-> "LINEAR",
               handle_left_type |-> "VECTOR", handle_right_type |-> "VECTOR"]

BezierKey(v) == [co |-> v, interpolation |-> "BEZIER",
                 handle_left_type |-> "AUTO_CLAMPED",
                 handle_right_type |-> "AUTO_CLAMPED"]

QuarterTurnX == Quaternion(C32, C32, Zero, Zero)

CamPlain ==
  [location |-> ZeroVector, rotation_mode |-> "QUATERNION",
   rotation_quaternion |-> IdentityQuaternion, rotation_euler |-> <<0, 0, 0>>,
   anim |-> "none", locKeys |-> NoKeys, rotKeys |-> NoKeys, props |-> NoProps]

CamEuler ==
  [location |-> V(1, 0, 2), rotation_mode |-> "XYZ",
   rotation_quaternion |-> IdentityQuaternion, rotation_euler |-> <<1, 0, 0>>,
   anim |-> "action",
   locKeys |-> [f \in {2, 4} |-> UserKey(IF f = 2 THEN V(1, 0, 2) ELSE V(3, 0, 2))],
   rotKeys |-> [f \in {2} |-> UserKey(IdentityQuaternion)],
   props |-> NoProps]

CamTurned ==
  [location |-> V(0, 2, 0), rotation_mode |-> "QUATERNION",
   rotation_quaternion |-> QuarterTurnX, rotation_euler |-> <<0, 0, 0>>,
   anim |-> "action",
   locKeys |-> [f \in {1, 3} |-> BezierKey(IF f = 1 THEN V(0, 2, 0) ELSE V(0, 2, 1))],
   rotKeys |-> [f \in {1, 3} |-> BezierKey(QuarterTurnX)],
   props |-> [has |-> TRUE, duration |-> 10000, frames |-> 2]]

CamBare ==
  [location |-> V(0, 0, 1), rotation_mode |-> "QUATERNION",
   rotation_quaternion |-> Quaternion(Zero, One, Zero, Zero),
   rotation_euler |-> <<0, 0, 0>>,
   anim |-> "empty", locKeys |-> NoKeys, rotKeys |-> NoKeys, props |-> NoProps]

Scene(start, end, current, fps, camera) ==
  [frame_start |-> start, frame_end |-> end, frame_current |-> current,
   fps |-> fps, camera |-> camera, active |-> 0]

Host(sc, cs, sel) == [scene |-> sc, cams |-> cs, selected |-> sel]

InitialHosts ==
  { Host(Scene(1, 4, 1, 24, 0), << >>, {}),
    Host(Scene(1, 4, 3, 24, 1), <<CamPlain>>, {}),
    Host(Scene(2, 5, 3, 160, 1), <<CamEuler>>, {1}),
    Host(Scene(2, 5, 5, 24, 0), <<CamEuler>>, {1}),
    Host(Scene(1, 2, 2, 30, 1), <<CamTurned>>, {1}),
    Host(Scene(2, 3, 1, 30, 1), <<CamBare, CamTurned>>, {2}) }

DefaultImportConfig ==
  [create_camera |-> TRUE, use_existing_camera |-> FALSE, scale_factor |-> 1,
   coordinate_system |-> "BLENDER", apply_deltas |-> FALSE, frame_rate |-> 120]

DefaultExportConfig ==
  [export_active_camera |-> TRUE, scale_factor |-> 1, coordinate_system |-> "WEBXR",
   sample_mode |-> "ALL_FRAMES", custom_sample_rate |-> 1, export_position |-> TRUE]

NoImport ==
  [n |-> 0, cfg |-> DefaultImportConfig, data |-> [kind |-> "malformed", frames |-> << >>],
   outcome |-> "NONE", stage |-> "NONE", target |-> 0,
   pre_scene |-> Scene(0, 0, 0, 0, 0), pre_cams |-> << >>, pre_selected |-> {}]

NoExport ==
  [n |-> 0, cfg |-> DefaultExportConfig, fault |-> [at |-> "none", index |-> 0],
   outcome |-> "NONE", stage |-> "NONE", target |-> 0,
   pre_scene |-> Scene(0, 0, 0, 0, 0), pre_cams |-> << >>,
   sampled |-> << >>, out |-> NoOutput]

NoPure ==
  [op |-> "none", p |-> ZeroVector, q |-> IdentityQuaternion,
   p2 |-> ZeroVector, q2 |-> IdentityQuaternion,
   frame_start |-> 0, frame_end |-> 0, step |-> 1, frames |-> << >>, all |-> << >>]

----------------------------------------------------------------------------
(* One operator invocation on a host, and an export straight after a       *)
(* finished import.                                                        *)

Init ==
  /\ \E h \in InitialHosts :
       /\ scene = h.scene
       /\ cams = h.cams
       /\ selected = h.selected
  /\ imp = NoImport
  /\ exp = NoExport
  /\ ops = 0
  /\ pf = NoPure

ApplyImport(r, cfg, data) ==
  /\ scene' = r.scene
  /\ cams' = r.cams
  /\ selected' = r.selected
  /\ imp' = [n |-> ops + 1, cfg |-> cfg, data |-> data, outcome |-> r.outcome,
             stage |-> r.stage, target |-> r.target,
             pre_scene |-> scene, pre_cams |-> cams, pre_selected |-> selected]
  /\ ops' = ops + 1
  /\ UNCHANGED <<exp, pf>>

DoImport(cfg, data) == ApplyImport(ImportRun(scene, cams, selected, cfg, data), cfg, data)

ApplyExport(r, cfg, fault) ==
  /\ scene' = r.scene
  /\ cams' = r.cams
  /\ exp' = [n |-> ops + 1, cfg |-> cfg, fault |-> fault, outcome |-> r.outcome,
             stage |-> r.stage, target |-> r.target,
             pre_scene |-> scene, pre_cams |-> cams,
             sampled |-> r.sampled, out |-> r.out]
  /\ ops' = ops + 1
  /\ UNCHANGED <<selected, imp, pf>>

DoExport(cfg, fault) ==
  ApplyExport(ExportRun(scene, cams, selected, cfg, fault), cfg, fault)

Import ==
  /\ ops = 0
  /\ \E cfg \in ImportConfigs, data \in ImportData : DoImport(cfg, data)

Export ==
  /\ ops = 0
  /\ \E cfg \in ExportConfigs, fault \in Faults : DoExport(cfg, fault)

(* The export that undoes the import just finished: the same camera, the   *)
(* inverse conversion when the import converted, the same scale factor.    *)
ExportBack ==
  /\ ops = 1
  /\ imp.n = 1
  /\ imp.outcome = "FINISHED"
  /\ DoExport([export_active_camera |-> TRUE,
               scale_factor |-> imp.cfg.scale_factor,
               coordinate_system |->
                 IF imp.cfg.coordinate_system = "BLENDER" THEN "WEBXR" ELSE "BLENDER",
               sample_mode |-> "KEYFRAMES", custom_sample_rate |-> 1,
               export_position |-> TRUE],
              [at |-> "none", index |-> 0])

Next == Import \/ Export \/ ExportBack

Spec == Init /\ [][Next]_vars

----------------------------------------------------------------------------
(* The transform core and the frame selection on their own: the inputs are *)
(* drawn in the initial state and one step applies the operation.          *)

MaxCoord == 1

MaxFrame == 10

MaxStride == 4

Coords == (-MaxCoord)..MaxCoord

QCoords == {-1, 0, 1}

PureInputs ==
  {[NoPure EXCEPT !.op = "pose", !.p = V(x, y, z),
                  !.q = Quaternion(F32(a), F32(b), F32(c), F32(d))] :
     x \in Coords, y \in Coords, z \in Coords,
     a \in QCoords, b \in QCoords, c \in QCoords, d \in QCoords}
  \cup
  {[NoPure EXCEPT !.op = "range", !.frame_start = a, !.frame_end = b, !.step = n] :
     a \in 0..MaxFrame, b \in 0..MaxFrame, n \in 1..MaxStride}

PureInit ==
  /\ scene = Scene(1, 1, 1, 24, 0)
  /\ cams = << >>
  /\ selected = {}
  /\ imp = NoImport
  /\ exp = NoExport
  /\ ops = 0
  /\ pf \in PureInputs

(* The import conversion followed by the export conversion.                *)
ConvertThere ==
  /\ pf.op = "pose"
  /\ pf' = [pf EXCEPT !.op = "import_export",
                      !.p2 = ExportConvertPosition(ImportConvertPosition(pf.p)),
                      !.q2 = ExportConvertRotation(ImportConvertRotation(pf.q))]
  /\ UNCHANGED <<scene, cams, selected, imp, exp, ops>>

(* The export conversion followed by the import conversion.                *)
ConvertBack ==
  /\ pf.op = "pose"
  /\ pf' = [pf EXCEPT !.op = "export_import",
                      !.p2 = ImportConvertPosition(ExportConvertPosition(pf.p)),
                      !.q2 = ImportConvertRotation(ExportConvertRotation(pf.q))]
  /\ UNCHANGED <<scene, cams, selected, imp, exp, ops>>

(* _get_frames_to_sample under CUSTOM_RATE and under ALL_FRAMES.           *)
SelectFrames ==
  /\ pf.op = "range"
  /\ pf' = [pf EXCEPT
              !.op = "selected",
              !.frames = GetFramesToSample(
                           [DefaultExportConfig EXCEPT !.sample_mode = "CUSTOM_RATE",
                                                       !.custom_sample_rate = pf.step],
                           NewCamera, Scene(pf.frame_start, pf.frame_end, 1, 24, 0)),
              !.all = GetFramesToSample(DefaultExportConfig, NewCamera,
                                        Scene(pf.frame_start, pf.frame_end, 1, 24, 0))]
  /\ UNCHANGED <<scene, cams, selected, imp, exp, ops>>

PureNext == ConvertThere \/ ConvertBack \/ SelectFrames

PureSpec == PureInit /\ [][PureNext]_vars

----------------------------------------------------------------------------
(* Properties of the export and import runs.                               *)

(* The state right after the single import of a behaviour.                 *)
JustImported == ops = 1 /\ imp.n = 1

(* The state right after an export.                                        *)
JustExported == exp.n > 0 /\ exp.n = ops

(* The import target as it was before the import: a camera of the host,    *)
(* or the camera the import created.                                       *)
PreTarget ==
  IF imp.target \in 1..Len(imp.pre_cams) THEN imp.pre_cams[imp.target] ELSE NewCamera

(* C1: every export run that reaches the sampling loop, whether it ends    *)
(* FINISHED or CANCELLED by an error raised while sampling, building the   *)
(* output or writing the file, leaves the scene's current frame and the    *)
(* camera's rotation mode as they were when the run started.               *)
C1_RestoresOnEveryExit ==
  (JustExported /\ exp.stage \in {"SAMPLE_ERROR", "BUILD_ERROR", "WRITE_ERROR", "DONE"})
    => /\ scene.frame_current = exp.pre_scene.frame_current
       /\ cams[exp.target].rotation_mode = exp.pre_cams[exp.target].rotation_mode

(* C2 as stated: with create_camera off and (use_existing_camera off or no *)
(* active scene camera) the import is cancelled with TARGET_UNAVAILABLE    *)
(* and creates no camera; in every other combination a target is resolved. *)
C2_CancelledWithoutUsableOption ==
  (JustImported /\ imp.data.kind = "frames" /\ Len(imp.data.frames) > 0)
    => IF ~imp.cfg.create_camera
            /\ (~imp.cfg.use_existing_camera \/ imp.pre_scene.camera = 0)
         THEN /\ imp.outcome = "CANCELLED"
              /\ imp.stage = "TARGET_UNAVAILABLE"
              /\ Len(cams) = Len(imp.pre_cams)
         ELSE imp.target # 0

(* C2 amended: the import is cancelled with TARGET_UNAVAILABLE, the host   *)
(* unchanged, exactly when create_camera and use_existing_camera are both  *)
(* off and the scene has an active camera; otherwise a target is resolved: *)
(* the active camera when use_existing_camera is on and there is one, else *)
(* a newly created camera that becomes the scene's active camera.          *)
C2_CancelledOnlyWithUnusedActiveCamera ==
  (JustImported /\ imp.data.kind = "frames" /\ Len(imp.data.frames) > 0)
    => IF ~imp.cfg.create_camera /\ ~imp.cfg.use_existing_camera
            /\ imp.pre_scene.camera # 0
         THEN /\ imp.outcome = "CANCELLED"
              /\ imp.stage = "TARGET_UNAVAILABLE"
              /\ imp.target = 0
              /\ scene = imp.pre_scene
              /\ cams = imp.pre_cams
              /\ selected = imp.pre_selected
         ELSE /\ imp.stage \in {"FRAME_ERROR", "DONE"}
              /\ IF imp.cfg.use_existing_camera /\ imp.pre_scene.camera # 0
                   THEN /\ imp.target = imp.pre_scene.camera
                        /\ Len(cams) = Len(imp.pre_cams)
                   ELSE /\ imp.target = Len(imp.pre_cams) + 1
                        /\ Len(cams) = Len(imp.pre_cams) + 1
              /\ scene.camera = imp.target

(* An import cancelled for want of a target although the clip is valid.    *)
C2_Witness ==
  /\ JustImported
  /\ imp.stage = "TARGET_UNAVAILABLE"
  /\ imp.pre_scene.camera # 0
  /\ Len(imp.data.frames) = 2

(* C3: an import whose JSON has no 'frames' key, a 'frames' value that is  *)
(* not an array, or an empty array ends CANCELLED (MISSING_FRAMES or       *)
(* EMPTY_FRAMES) with the host unchanged: cameras, animation, keyframes,   *)
(* frame range, fps, current frame and selection as before.                *)
C3_InvalidFramesLeaveHostUnchanged ==
  (JustImported /\ (imp.data.kind \in {"nokey", "notlist"}
                    \/ (imp.data.kind = "frames" /\ Len(imp.data.frames) = 0)))
    => /\ imp.outcome = "CANCELLED"
       /\ imp.stage = IF imp.data.kind = "frames" THEN "EMPTY_FRAMES"
                                                  ELSE "MISSING_FRAMES"
       /\ scene = imp.pre_scene
       /\ cams = imp.pre_cams
       /\ selected = imp.pre_selected

(* An empty clip imported with create_camera on into a scene whose camera  *)
(* carries an animation.                                                   *)
C3_Witness ==
  /\ JustImported
  /\ imp.stage = "EMPTY_FRAMES"
  /\ imp.cfg.create_camera
  /\ Len(cams) = 1
  /\ cams[1].anim = "action"
  /\ DOMAIN cams[1].locKeys = {2, 4}

(* The import target after the import.                                     *)
Target == cams[imp.target]

ClipLen == Len(imp.data.frames)

(* floor(t * frameRate) + 1 for the clip's i-th frame.                     *)
ClipFrameIndex(i) == (imp.data.frames[i].t * imp.cfg.frame_rate) \div 40000 + 1

ClipIndices == {ClipFrameIndex(i) : i \in 1..ClipLen}

(* The last frame of the clip, in clip order, that maps to index f.        *)
LastAt(f) ==
  CHOOSE i \in 1..ClipLen :
    /\ ClipFrameIndex(i) = f
    /\ \A j \in 1..ClipLen : ClipFrameIndex(j) = f => j <= i

(* The pose the import computes for the clip's i-th frame.                 *)
ClipPose(i) ==
  ImportPose(imp.cfg, DeltaBasis(imp.cfg, PreTarget, imp.data.frames[1]),
             imp.data.frames[i])

(* C4: after a successful import, whatever animation the target carried,   *)
(* the location and the rotation channel hold keyframes at exactly the     *)
(* indices floor(t * frameRate) + 1 of the clip's timestamps, and the      *)
(* keyframe at an index holds the pose of the last clip frame mapped to it.*)
C4_KeyframesAtClipIndices ==
  (JustImported /\ imp.outcome = "FINISHED")
    => /\ Target.anim = "action"
       /\ DOMAIN Target.locKeys = ClipIndices
       /\ DOMAIN Target.rotKeys = ClipIndices
       /\ \A f \in ClipIndices :
            /\ Target.locKeys[f].co = ClipPose(LastAt(f)).p
            /\ Target.rotKeys[f].co = ClipPose(LastAt(f)).q

(* The index at which the import keyed the clip's i-th frame.              *)
KeyIndex(i) == FrameNumber(imp.data.frames[i].t, imp.cfg.frame_rate)

KeyIndices == {KeyIndex(i) : i \in 1..ClipLen}

(* The clip frame the keyframe at index f holds: the last one keyed there. *)
LastKeyedAt(f) ==
  CHOOSE i \in 1..ClipLen :
    /\ KeyIndex(i) = f
    /\ \A j \in 1..ClipLen : KeyIndex(j) = f => j <= i

(* initial_pos and initial_rot as the import reads them off the target.    *)
InitialPosition == PreTarget.location

InitialRotation ==
  IF PreTarget.rotation_mode = "QUATERNION" THEN PreTarget.rotation_quaternion
  ELSE EulerToQuaternion(PreTarget.rotation_euler)

(* The converted and scaled position of the clip's i-th frame.             *)
ClipConvertedPosition(i) ==
  LET fr == imp.data.frames[i]
      p  == IF fr.pk = "value" THEN V(fr.p[1], fr.p[2], fr.p[3]) ELSE ZeroVector
  IN  VScale(F32(imp.cfg.scale_factor),
             IF imp.cfg.coordinate_system = "BLENDER"
               THEN Vector(p.x, FNeg(p.z), p.y) ELSE p)

(* C8: with apply_deltas set, the position keyframed for a frame is        *)
(* initial_pos + D, D the converted and scaled frame position minus the    *)
(* first frame's position, rotated by initial_rot only when the coordinate *)
(* conversion is active; the basis is the same for every frame of the run. *)
C8_DeltaRebasedPosition ==
  (JustImported /\ imp.outcome = "FINISHED" /\ imp.cfg.apply_deltas)
    => \A f \in DOMAIN Target.locKeys :
         LET D == VSub(ClipConvertedPosition(LastKeyedAt(f)),
                       FirstFramePosition(imp.data.frames[1]))
         IN  Target.locKeys[f].co =
               VAdd(InitialPosition,
                    IF imp.cfg.coordinate_system = "BLENDER"
                      THEN QRotate(InitialRotation, D) ELSE D)

(* A camera at the origin with identity rotation, first frame position     *)
(* (5,0,0), a second frame converted to (6,0,0): keyframed at (1,0,0).     *)
C8_Witness ==
  /\ JustImported
  /\ imp.outcome = "FINISHED"
  /\ imp.cfg.apply_deltas
  /\ InitialPosition = ZeroVector
  /\ InitialRotation = IdentityQuaternion
  /\ ClipLen = 2
  /\ FirstFramePosition(imp.data.frames[1]) = V(5, 0, 0)
  /\ ClipConvertedPosition(2) = V(6, 0, 0)
  /\ KeyIndex(2) # KeyIndex(1)
  /\ Target.locKeys[KeyIndex(2)].co = V(1, 0, 0)

(* The clip's timestamps are in non-decreasing order.                      *)
ClipNonDecreasing ==
  \A i \in 1..(ClipLen - 1) : imp.data.frames[i].t <= imp.data.frames[i + 1].t

(* C9: after a successful import of a clip with non-decreasing timestamps  *)
(* every keyframe index written lies inside the scene frame range          *)
(* [frame_start, frame_end] the same import set.                           *)
C9_KeyframesInsideSceneRange ==
  (JustImported /\ imp.outcome = "FINISHED" /\ ClipNonDecreasing)
    => \A f \in (DOMAIN Target.locKeys) \cup (DOMAIN Target.rotKeys) :
         scene.frame_start <= f /\ f <= scene.frame_end

(* C10: with apply_deltas set, the pose keyframed for the clip's first     *)
(* frame is the pose the target had before the import began.               *)
C10_FirstFrameAtStartingPose ==
  (JustImported /\ imp.outcome = "FINISHED" /\ imp.cfg.apply_deltas
     /\ LastKeyedAt(KeyIndex(1)) = 1)
    => /\ Target.locKeys[KeyIndex(1)].co = InitialPosition
       /\ Target.rotKeys[KeyIndex(1)].co = InitialRotation

----------------------------------------------------------------------------
(* The round trip: an import followed by the export that undoes it.        *)

(* The state right after the export that follows a finished import.        *)
RoundTripped == ops = 2 /\ imp.n = 1 /\ exp.n = 2 /\ exp.outcome = "FINISHED"

(* Non-empty, every frame with q and p, timestamps strictly increasing.    *)
ValidClip ==
  /\ ClipLen >= 1
  /\ \A i \in 1..ClipLen :
       Len(imp.data.frames[i].q) = 4 /\ imp.data.frames[i].pk = "value"
  /\ \A i \in 1..(ClipLen - 1) : imp.data.frames[i].t < imp.data.frames[i + 1].t

(* The round trip of the claim: WebXR-to-host conversion, no deltas.       *)
RoundTripCase ==
  /\ RoundTripped
  /\ ValidClip
  /\ imp.cfg.coordinate_system = "BLENDER"
  /\ ~imp.cfg.apply_deltas

(* An exported q or p (in 1e-6) equals the clip's within the last decimal. *)
SameToSixDecimals(out, original) ==
  /\ Len(out) = Len(original)
  /\ \A j \in 1..Len(out) : Abs(out[j] - original[j] * 1000000) <= 1

(* C5 as stated: the round trip yields one record per clip frame whose t,  *)
(* q and p equal the original frame's within the rounding tolerance.       *)
C5_RoundTripReproducesClip ==
  RoundTripCase
    => /\ Len(exp.out.frames) = ClipLen
       /\ \A i \in 1..ClipLen :
            /\ Abs(exp.out.frames[i].t - imp.data.frames[i].t) <= 1
            /\ SameToSixDecimals(exp.out.frames[i].q, imp.data.frames[i].q)
            /\ SameToSixDecimals(exp.out.frames[i].p, imp.data.frames[i].p)

(* The position of index f among the keyframe indices of the import.       *)
IndexRank(f) == Cardinality({g \in KeyIndices : g <= f})

(* The largest magnitude among the components of a clip's q or p.          *)
RECURSIVE LargestMagnitude(_)
LargestMagnitude(original) ==
  IF original = << >> THEN 0
  ELSE MaxOf(Abs(Head(original)), LargestMagnitude(Tail(original)))

(* An exported q or p (in 1e-6) is within 1e-5 * max(1, M) of the clip's   *)
(* in every component, M the largest magnitude among the clip's            *)
(* components.                                                             *)
SameToFloatTolerance(out, original) ==
  /\ Len(out) = Len(original)
  /\ \A j \in 1..Len(out) :
       Abs(out[j] - original[j] * 1000000)
         <= 10 * MaxOf(1, LargestMagnitude(original))

(* A binary32 value below 2^128 in magnitude: it has not overflowed.       *)
Finite32(a) == a = Zero \/ BitLen(Abs(a[1])) + a[2] <= 128

(* Every keyframe value of the target is finite.                           *)
KeyframesFinite ==
  /\ \A f \in DOMAIN Target.locKeys :
       LET co == Target.locKeys[f].co
       IN  Finite32(co.x) /\ Finite32(co.y) /\ Finite32(co.z)
  /\ \A f \in DOMAIN Target.rotKeys :
       LET co == Target.rotKeys[f].co
       IN  Finite32(co.w) /\ Finite32(co.x) /\ Finite32(co.y) /\ Finite32(co.z)

(* C5 amended: the round trip yields one record per keyframe the import    *)
(* wrote, in increasing order of frame index; the record of an index has   *)
(* t = (index - 1) / int(frameRate) rounded to 4 decimals, and its q and p *)
(* are those of the clip frame that keyframe holds (the last one keyed     *)
(* there) to within 1e-5 * max(1, M) in every component, M the largest     *)
(* magnitude among the components of that q (of that p), as long as no     *)
(* keyframe value has overflowed.                                          *)
C5_RoundTripReproducesKeyframes ==
  (RoundTripCase /\ KeyframesFinite)
    => /\ Len(exp.out.frames) = Cardinality(KeyIndices)
       /\ \A f \in KeyIndices :
            LET rec == exp.out.frames[IndexRank(f)]
                src == imp.data.frames[LastKeyedAt(f)]
                fps == imp.cfg.frame_rate \div 4
            IN  /\ 2 * Abs(rec.t * fps - (f - 1) * 10000) <= fps
                /\ rec.pk = "value"
                /\ SameToFloatTolerance(rec.q, src.q)
                /\ SameToFloatTolerance(rec.p, src.p)

(* Timestamps 0 and 3 at 30 frames per second and scale 7, round-tripped:  *)
(* two records, the second at t = 3 with q as in the clip and with         *)
(* p = (24.000002, 0, 0) for the clip's (24, 0, 0), since 24 * 7 = 168     *)
(* comes back as 168 * float(1 / 7).                                       *)
C5_Witness ==
  /\ RoundTripCase
  /\ KeyframesFinite
  /\ imp.cfg.frame_rate = 120
  /\ imp.cfg.scale_factor = 7
  /\ ClipLen = 2
  /\ imp.data.frames[2].p = <<24, 0, 0>>
  /\ Len(exp.out.frames) = 2
  /\ exp.out.frames[2].t = 30000
  /\ exp.out.frames[2].p = <<24000002, 0, 0>>
  /\ exp.out.frames[2].q = <<0, 1000000, 0, 3000000>>

----------------------------------------------------------------------------
(* Properties of the transform core and of the frame selection.            *)

(* |a - b| < 1e-5: the difference is no more than 9e-6 to six decimals.    *)
WithinTolerance(a, b) == Abs(Round6(FSub(a, b))) <= 9

SameRotation(a, b) ==
  /\ WithinTolerance(a.w, b.w)
  /\ WithinTolerance(a.x, b.x)
  /\ WithinTolerance(a.y, b.y)
  /\ WithinTolerance(a.z, b.z)

(* C6: the import conversion followed by the export conversion, and the    *)
(* export conversion followed by the import conversion, return the         *)
(* original position, and the original rotation to within 1e-5.            *)
C6_ConversionsAreInverses ==
  pf.op \in {"import_export", "export_import"}
    => pf.p2 = pf.p /\ SameRotation(pf.q2, pf.q)

(* A position off every axis and a rotation with two non-zero components,  *)
(* converted there and back: the rotation comes back a little longer.      *)
C6_Witness ==
  /\ pf.op = "import_export"
  /\ pf.p = V(1, -1, 1)
  /\ pf.q = Quaternion(One, FNeg(One), Zero, Zero)
  /\ pf.p2 = pf.p
  /\ pf.q2 # pf.q

(* C7: CUSTOM_RATE with stride N over [frame_start, frame_end] selects     *)
(* frame_start, frame_start + N, ... up to frame_end, in increasing order: *)
(* it begins at frame_start when the range is not empty, contains          *)
(* frame_end only when frame_end - frame_start is a multiple of N, is      *)
(* empty when frame_start > frame_end, and with N = 1 is the ALL_FRAMES    *)
(* selection, every integer of the range.                                  *)
C7_CustomRateSelection ==
  pf.op = "selected"
    => LET a == pf.frame_start
           b == pf.frame_end
           N == pf.step
           n == Len(pf.frames)
       IN  /\ {pf.frames[i] : i \in 1..n} = {x \in a..b : (x - a) % N = 0}
           /\ \A i \in 1..(n - 1) : pf.frames[i + 1] = pf.frames[i] + N
           /\ a <= b => pf.frames[1] = a
           /\ (\E i \in 1..n : pf.frames[i] = b) <=> (a <= b /\ (b - a) % N = 0)
           /\ a > b => pf.frames = << >>
           /\ pf.all = [i \in 1..(IF a > b THEN 0 ELSE b - a + 1) |-> a + i - 1]
           /\ N = 1 => pf.frames = pf.all

(* Start 1, end 10, stride 3: frames 1, 4, 7, 10.                          *)
C7_Witness ==
  /\ pf.op = "selected"
  /\ pf.frame_start = 1
  /\ pf.frame_end = 10
  /\ pf.step = 3
  /\ pf.frames = <<1, 4, 7, 10>>

----------------------------------------------------------------------------
(* The timestamps of an exported frames list.                              *)

(* C11: every finished export, in each sample mode and for every keyframe  *)
(* track and scene frame range, emits timestamps                           *)
(* t = (frame - frame_start) / fps that are >= 0 and strictly increasing   *)
(* in list order.                                                          *)
C11_ExportTimestampsIncreasing ==
  (JustExported /\ exp.outcome = "FINISHED")
    => /\ \A i \in 1..Len(exp.out.frames) : exp.out.frames[i].t >= 0
       /\ \A i \in 1..(Len(exp.out.frames) - 1) :
            exp.out.frames[i].t < exp.out.frames[i + 1].t

=============================================================================
